---- MODULE Spec2Model ----
(***************************************************************************)
(* pyZoneGit: validation of DNS zone files kept in a git repository.       *)
(*                                                                         *)
(* Three specifications over one set of variables:                         *)
(*   Spec        pre_commit(repo_path, file_list): the per-file pipeline   *)
(*               (revision count, named-checkzone, serial, $ORIGIN) and    *)
(*               the exit status of the process.                           *)
(*   SpecFilter  main(): the list of zone files computed from the paths    *)
(*               git reports (get_all_zonefiles / get_changed_zonefiles).  *)
(*   SpecSerial  check_serial(serial_rev0, serial_rev1) as a function of   *)
(*               its arguments and of the system date.                     *)
(* Everything outside the script (git, named-checkzone, the clock, the     *)
(* text of the zone files) is an input chosen with \E from small sets.     *)
(***************************************************************************)
EXTENDS Integers, Sequences, FiniteSets, TLC

VARIABLES
    method,        \* Call().method: "git-hook" or "ci-cd"
    file_list,     \* pre_commit's file_list / the list built by main()
    idx,           \* position of the for loop of pre_commit in file_list
    pc,            \* control position
    err_counter,   \* pre_commit: err_counter
    tmp_counter,   \* pre_commit: tmp_counter
    rev_counter,   \* pre_commit: rev_counter
    exit_code,     \* <<>> while the process runs, <<c>> once it ended with status c
    trace,         \* the stages executed so far, with what each returned
    reads,         \* the read_file calls made so far
    git_output,    \* main(): the paths printed by git ls-files / git diff
    serial_rev0,   \* check_serial: argument serial_rev0
    serial_rev1,   \* check_serial: argument serial_rev1 (<<>> is None)
    today,         \* check_serial: datetime.datetime.now()
    serial_ret     \* check_serial: returned value (<<>> before the call)

vars == << method, file_list, idx, pc, err_counter, tmp_counter, rev_counter,
           exit_code, trace, reads, git_output, serial_rev0, serial_rev1,
           today, serial_ret >>

----------------------------------------------------------------------------
(* Bounds *)

MaxFiles == 3      \* files handed to pre_commit
MaxRaw == 2        \* largest commit count printed by git rev-list --count
MaxOrigins == 2    \* $ORIGIN lines in one zone file
MaxLen == 3        \* paths printed by git ls-files / git diff

----------------------------------------------------------------------------
(* Values *)

None == << >>
Some(x) == << x >>

Methods == { "git-hook", "ci-cd" }

\* Exit statuses subprocess.run reports: 0, a positive status, or -N when the
\* child was terminated by signal N.
ReturnCodes == { -1, 0, 1, 2 }

\* Serials found in the SOA record of a zone file.
Serials == { 42, 202403150, 2024031400, 2024031401, 2024031500, 2024031501,
             1202403150 }

\* Dates the system clock can show.
Dates == { [year |-> 2024, month |-> 3, day |-> 14],
           [year |-> 2024, month |-> 3, day |-> 15] }

\* $ORIGIN lines, as tokens.
OriginLines == { << "$ORIGIN", " ", "example", ".", "com", "." >>,
                 << "$ORIGIN", " ", "example", ".", "com" >> }

\* Paths git can print, as sequences of characters.
Paths == { << "d", "b", ".", "a" >>,                          \* db.a
           << "n", ".", "t", "x", "t" >>,                     \* n.txt
           << "z", "/", "f", ".", "z", "o", "n", "e" >>,      \* z/f.zone
           << "d", "b", ".", "d", "/", "r" >>,                \* db.d/r
           << "a", ".", "d", "b" >>,                          \* a.db
           << "x", ".", "r", "e", "v" >>,                     \* x.rev
           << "x", ".", "r", "p", "z" >>,                     \* x.rpz
           << "a", ".", "d", "b", "x" >> }                    \* a.dbx

SeqsUpTo(S, n) == UNION { [1..k -> S] : k \in 0..n }

IsInjective(s) == \A i, j \in DOMAIN s : i # j => s[i] # s[j]

----------------------------------------------------------------------------
(* Strings *)

StartsWith(s, p) == Len(s) >= Len(p) /\ SubSeq(s, 1, Len(p)) = p

EndsWith(s, p) == Len(s) >= Len(p) /\ SubSeq(s, Len(s) - Len(p) + 1, Len(s)) = p

\* os.path.basename: what follows the last "/"
basename(path) ==
    LET slashes == { i \in DOMAIN path : path[i] = "/" }
        last == IF slashes = {} THEN 0
                ELSE CHOOSE i \in slashes : \A j \in slashes : j <= i
    IN SubSeq(path, last + 1, Len(path))

\* re.compile(r"^db\.|\.db$|\.zone$|\.rev$|\.rpz$").search(name)
zone_pattern(name) ==
    \/ StartsWith(name, << "d", "b", "." >>)
    \/ EndsWith(name, << ".", "d", "b" >>)
    \/ EndsWith(name, << ".", "z", "o", "n", "e" >>)
    \/ EndsWith(name, << ".", "r", "e", "v" >>)
    \/ EndsWith(name, << ".", "r", "p", "z" >>)

\* list.remove(item): drops the first element equal to item
list_remove(list, item) ==
    LET first == CHOOSE i \in DOMAIN list :
                     list[i] = item /\ \A j \in 1..(i - 1) : list[j] # item
    IN SubSeq(list, 1, first - 1) \o SubSeq(list, first + 1, Len(list))

\* for item in file_list: if not pattern.search(basename(item)): file_list.remove(item)
\* The list iterator holds a position; the list shrinks under it.
RECURSIVE filter_loop(_, _)
filter_loop(list, i) ==
    IF i > Len(list) THEN list
    ELSE IF zone_pattern(basename(list[i]))
         THEN filter_loop(list, i + 1)
         ELSE filter_loop(list_remove(list, list[i]), i + 1)

get_all_zonefiles(output) == filter_loop(output, 1)

get_changed_zonefiles(output) == filter_loop(output, 1)

----------------------------------------------------------------------------
(* Serial numbers *)

\* str(n) for n >= 0, as a sequence of digits
RECURSIVE str(_)
str(n) == IF n < 10 THEN << n >> ELSE Append(str(n \div 10), n % 10)

\* sys_time.strftime("%Y%m%d")
strftime(t) ==
    str(t.year) \o << t.month \div 10, t.month % 10 >>
                \o << t.day \div 10, t.day % 10 >>

\* one character class: the digit d lies in lo..hi
In(d, lo, hi) == lo <= d /\ d <= hi

\* re.search(r"19[7-9][0-9]|[2-9][0-9]{3}0[1-9]|1[12][012][0-9]|3[01]\d\d", s)
new_zone_pattern(s) ==
    \/ \E i \in 1..(Len(s) - 3) :
          /\ s[i] = 1 /\ s[i + 1] = 9 /\ In(s[i + 2], 7, 9) /\ In(s[i + 3], 0, 9)
    \/ \E i \in 1..(Len(s) - 5) :
          /\ In(s[i], 2, 9) /\ In(s[i + 1], 0, 9) /\ In(s[i + 2], 0, 9)
          /\ In(s[i + 3], 0, 9) /\ s[i + 4] = 0 /\ In(s[i + 5], 1, 9)
    \/ \E i \in 1..(Len(s) - 3) :
          /\ s[i] = 1 /\ In(s[i + 1], 1, 2) /\ In(s[i + 2], 0, 2) /\ In(s[i + 3], 0, 9)
    \/ \E i \in 1..(Len(s) - 3) :
          /\ s[i] = 3 /\ In(s[i + 1], 0, 1) /\ In(s[i + 2], 0, 9) /\ In(s[i + 3], 0, 9)

\* re.search(rf"^{date}\d\d$", s)
dated_pattern(date, s) ==
    /\ Len(s) = Len(date) + 2
    /\ SubSeq(s, 1, Len(date)) = date
    /\ In(s[Len(s) - 1], 0, 9) /\ In(s[Len(s)], 0, 9)

\* variant of the increment rule that accepts an unchanged serial
serial_incremented_ge(rev0, rev1) == rev0 >= rev1

\* serial_rev0 > serial_rev1
serial_incremented(rev0, rev1) == rev0 > rev1

\* check_serial(serial_rev0, serial_rev1) at system time now
check_serial(rev0, rev1, now) ==
    LET date == strftime(now)
        match == IF rev1 = None THEN new_zone_pattern(str(rev0))
                 ELSE dated_pattern(date, str(rev0))
        after_format == IF match THEN 0 ELSE 1
    IN IF rev1 # None
       THEN IF serial_incremented(rev0, rev1[1]) THEN after_format ELSE 1
       ELSE after_format

----------------------------------------------------------------------------
(* Zone file text, as far as the parsers look at it *)

\* soa:     a line "<name> IN SOA" is present (soa_pattern of parse_zone)
\* serial:  the number captured by the pattern of parse_serial, if it matches
\* origins: the lines matched by the pattern of parse_origin, in order
Contents == [ soa : BOOLEAN,
              serial : { None } \cup { Some(s) : s \in Serials },
              origins : SeqsUpTo(OriginLines, MaxOrigins) ]

\* what a git invocation hands back: None when exec_cmd raises
\* CommandExecutionError, Some(stdout) otherwise
RevListOutputs == { None } \cup { Some(n) : n \in 0..MaxRaw }

\* read_file: the object named on the git show command line
read_file(m, revision) ==
    IF m = "git-hook"
    THEN IF revision = 0 THEN ":" ELSE "HEAD:"
    ELSE IF revision = 0 THEN "HEAD:" ELSE "HEAD~1:"

\* get_rev_count: the count git prints, minus one in a pipeline; 0 when the
\* command fails
get_rev_count(m, output) ==
    IF output = None THEN 0
    ELSE IF m = "git-hook" THEN output[1] ELSE output[1] - 1

\* parse_zone: the name of the SOA record, else the name of the first
\* $ORIGIN directive, else None (the caller exits)
parse_zone(data) ==
    IF data.soa THEN Some("example.com")
    ELSE IF data.origins # << >> THEN Some("example.com")
    ELSE None

\* check_zone: the return code of named-checkzone, whatever it is
check_zone(returncode) == returncode

\* parse_serial: the captured number, else None (the caller exits)
parse_serial(data) == data.serial

\* parse_origin: the $ORIGIN lines
parse_origin(data) == data.origins

\* check_origin: 1 as soon as one line does not end with "."
check_origin(origin_list) ==
    IF \E i \in DOMAIN origin_list : origin_list[i][Len(origin_list[i])] # "."
    THEN 1 ELSE 0

\* what the three parsers can return over all the texts git show can print
ParsedZones == { parse_zone(data) : data \in Contents }

ParsedSerials == { parse_serial(data) : data \in Contents }

ParsedOrigins == { parse_origin(data) : data \in Contents }

----------------------------------------------------------------------------
(* pre_commit *)

AllZoneFiles == << << "d", "b", ".", "a" >>,
                   << "z", "/", "f", ".", "z", "o", "n", "e" >>,
                   << "a", ".", "d", "b" >>,
                   << "x", ".", "r", "e", "v" >>,
                   << "x", ".", "r", "p", "z" >> >>

Event(stage, ret) == [ file |-> idx, stage |-> stage, ret |-> ret ]

Read(revision, stage, ok) ==
    [ file |-> idx, revision |-> revision, ref |-> read_file(method, revision),
      stage |-> stage, ok |-> ok ]

\* variant of the loop condition that leaves the loop at the first error
LoopDone_break == idx > Len(file_list) \/ err_counter # 0

\* for zonefile in file_list: the list is exhausted
LoopDone == idx > Len(file_list)

\* variant of the stage guard that ignores earlier failures
NoPriorFailure_always == TRUE

\* tmp_counter == err_counter
NoPriorFailure == tmp_counter = err_counter

\* variant of the baseline guard that also takes files without history
HasHistory_ge == rev_counter >= 0

\* rev_counter > 0
HasHistory == rev_counter > 0

\* rev_counter == 0
IsNew == rev_counter = 0

\* the variables of main() and of the check_serial harness
Others == << git_output, serial_rev0, serial_rev1, today, serial_ret >>

\* an uncaught CommandExecutionError: traceback, exit status 1
Crash(newreads) ==
    /\ reads' = reads \o newreads
    /\ pc' = "crash"
    /\ exit_code' = Some(1)
    /\ UNCHANGED << method, file_list, idx, err_counter, tmp_counter,
                    rev_counter, trace, Others >>

\* logging.critical(...); sys.exit(1)
Fatal(newreads) ==
    /\ reads' = reads \o newreads
    /\ pc' = "exit"
    /\ exit_code' = Some(1)
    /\ UNCHANGED << method, file_list, idx, err_counter, tmp_counter,
                    rev_counter, trace, Others >>

\* lines 444-448: next file, tmp_counter, rev_counter
NextFile ==
    /\ pc = "loop" /\ ~LoopDone
    /\ tmp_counter' = err_counter
    /\ \E output \in RevListOutputs : rev_counter' = get_rev_count(method, output)
    /\ pc' = "zone"
    /\ UNCHANGED << method, file_list, idx, err_counter, exit_code, trace,
                    reads, Others >>

\* lines 450-451, read_file raises
ZoneReadFail ==
    /\ pc = "zone"
    /\ Crash(<< Read(0, "zone", FALSE) >>)

\* lines 450-451, parse_zone exits
ZoneFatal ==
    /\ pc = "zone"
    /\ \E zonename \in ParsedZones : zonename = None
    /\ Fatal(<< Read(0, "zone", TRUE) >>)

\* lines 450-451: err_counter += check_zone(zonename, path)
ZoneCheck ==
    /\ pc = "zone"
    /\ \E zonename \in ParsedZones, returncode \in ReturnCodes :
          /\ zonename # None
          /\ err_counter' = err_counter + check_zone(returncode)
          /\ trace' = Append(trace, Event("zone", check_zone(returncode)))
    /\ reads' = Append(reads, Read(0, "zone", TRUE))
    /\ pc' = "serial"
    /\ UNCHANGED << method, file_list, idx, tmp_counter, rev_counter,
                    exit_code, Others >>

\* lines 453-460, read_file raises
SerialReadFail ==
    /\ pc = "serial" /\ NoPriorFailure
    /\ \/ (IsNew \/ HasHistory) /\ Crash(<< Read(0, "serial", FALSE) >>)
       \/ /\ HasHistory
          /\ \E rev0 \in ParsedSerials : rev0 # None
          /\ Crash(<< Read(0, "serial", TRUE), Read(1, "serial", FALSE) >>)

\* lines 453-460, parse_serial exits
SerialFatal ==
    /\ pc = "serial" /\ NoPriorFailure
    /\ \/ /\ IsNew \/ HasHistory
          /\ \E rev0 \in ParsedSerials : rev0 = None
          /\ Fatal(<< Read(0, "serial", TRUE) >>)
       \/ /\ HasHistory
          /\ \E rev0, rev1 \in ParsedSerials : rev0 # None /\ rev1 = None
          /\ Fatal(<< Read(0, "serial", TRUE), Read(1, "serial", TRUE) >>)

\* lines 453-455: err_counter += check_serial(serial_rev0, None)
SerialNew ==
    /\ pc = "serial" /\ NoPriorFailure /\ IsNew
    /\ \E rev0 \in ParsedSerials, now \in Dates :
          /\ rev0 # None
          /\ LET ret == check_serial(rev0[1], None, now)
             IN /\ err_counter' = err_counter + ret
                /\ trace' = Append(trace, Event("serial_new", ret))
    /\ reads' = Append(reads, Read(0, "serial", TRUE))
    /\ pc' = "origin"
    /\ UNCHANGED << method, file_list, idx, tmp_counter, rev_counter,
                    exit_code, Others >>

\* lines 457-460: err_counter += check_serial(serial_rev0, serial_rev1)
SerialBase ==
    /\ pc = "serial" /\ NoPriorFailure /\ HasHistory
    /\ \E rev0, rev1 \in ParsedSerials, now \in Dates :
          /\ rev0 # None /\ rev1 # None
          /\ LET ret == check_serial(rev0[1], rev1, now)
             IN /\ err_counter' = err_counter + ret
                /\ trace' = Append(trace, Event("serial_base", ret))
    /\ reads' = reads \o << Read(0, "serial", TRUE), Read(1, "serial", TRUE) >>
    /\ pc' = "origin"
    /\ UNCHANGED << method, file_list, idx, tmp_counter, rev_counter,
                    exit_code, Others >>

\* lines 453 and 457: neither condition holds
SerialSkip ==
    /\ pc = "serial"
    /\ ~(NoPriorFailure /\ IsNew) /\ ~(NoPriorFailure /\ HasHistory)
    /\ pc' = "origin"
    /\ UNCHANGED << method, file_list, idx, err_counter, tmp_counter,
                    rev_counter, exit_code, trace, reads, Others >>

\* lines 462-464, read_file raises
OriginReadFail ==
    /\ pc = "origin" /\ NoPriorFailure
    /\ Crash(<< Read(0, "origin", FALSE) >>)

\* lines 462-464: err_counter += check_origin(parse_origin(...))
OriginCheck ==
    /\ pc = "origin" /\ NoPriorFailure
    /\ \E origin_list \in ParsedOrigins :
          LET ret == check_origin(origin_list)
          IN /\ err_counter' = err_counter + ret
             /\ trace' = Append(trace, Event("origin", ret))
    /\ reads' = Append(reads, Read(0, "origin", TRUE))
    /\ idx' = idx + 1
    /\ pc' = "loop"
    /\ UNCHANGED << method, file_list, tmp_counter, rev_counter, exit_code,
                    Others >>

\* line 462: the condition does not hold
OriginSkip ==
    /\ pc = "origin" /\ ~NoPriorFailure
    /\ idx' = idx + 1
    /\ pc' = "loop"
    /\ UNCHANGED << method, file_list, err_counter, tmp_counter, rev_counter,
                    exit_code, trace, reads, Others >>

\* lines 466-467: sys.exit(1) if err_counter, else the script ends normally
Finish ==
    /\ pc = "loop" /\ LoopDone
    /\ exit_code' = IF err_counter # 0 THEN Some(1) ELSE Some(0)
    /\ pc' = "done"
    /\ UNCHANGED << method, file_list, idx, err_counter, tmp_counter,
                    rev_counter, trace, reads, Others >>

Init ==
    /\ method \in Methods
    /\ file_list \in { SubSeq(AllZoneFiles, 1, n) : n \in 0..MaxFiles }
    /\ idx = 1
    /\ pc = "loop"
    /\ err_counter = 0
    /\ tmp_counter = 0
    /\ rev_counter = 0
    /\ exit_code = None
    /\ trace = << >>
    /\ reads = << >>
    /\ git_output = << >>
    /\ serial_rev0 = None
    /\ serial_rev1 = None
    /\ today = None
    /\ serial_ret = None

Next ==
    \/ NextFile
    \/ ZoneReadFail
    \/ ZoneFatal
    \/ ZoneCheck
    \/ SerialReadFail
    \/ SerialFatal
    \/ SerialNew
    \/ SerialBase
    \/ SerialSkip
    \/ OriginReadFail
    \/ OriginCheck
    \/ OriginSkip
    \/ Finish

Spec == Init /\ [][Next]_vars

----------------------------------------------------------------------------
(* main(): the list of zone files *)

\* git rev-list --count HEAD: fails without a commit, else prints 1 or more
HeadCounts == { None } \cup { Some(n) : n \in 1..MaxRaw }

\* lines 477-480: rev_count == 0, file_list = get_all_zonefiles()
MainAll ==
    /\ pc = "main"
    /\ \E output \in HeadCounts : get_rev_count(method, output) = 0
    /\ file_list' = get_all_zonefiles(git_output)
    /\ pc' = "pre_commit"
    /\ UNCHANGED << method, idx, err_counter, tmp_counter, rev_counter,
                    exit_code, trace, reads, Others >>

\* lines 477-482: rev_count > 0, file_list = get_changed_zonefiles(repo_path)
MainChanged ==
    /\ pc = "main"
    /\ \E output \in HeadCounts : get_rev_count(method, output) > 0
    /\ file_list' = get_changed_zonefiles(git_output)
    /\ pc' = "pre_commit"
    /\ UNCHANGED << method, idx, err_counter, tmp_counter, rev_counter,
                    exit_code, trace, reads, Others >>

InitFilter ==
    /\ method \in Methods
    /\ git_output \in { s \in SeqsUpTo(Paths, MaxLen) : IsInjective(s) }
    /\ file_list = << >>
    /\ idx = 1
    /\ pc = "main"
    /\ err_counter = 0
    /\ tmp_counter = 0
    /\ rev_counter = 0
    /\ exit_code = None
    /\ trace = << >>
    /\ reads = << >>
    /\ serial_rev0 = None
    /\ serial_rev1 = None
    /\ today = None
    /\ serial_ret = None

NextFilter == MainAll \/ MainChanged

SpecFilter == InitFilter /\ [][NextFilter]_vars

----------------------------------------------------------------------------
(* check_serial on its own *)

\* one call of check_serial(serial_rev0, serial_rev1)
CheckSerial ==
    /\ pc = "check_serial"
    /\ serial_ret' = Some(check_serial(serial_rev0[1], serial_rev1, today))
    /\ pc' = "returned"
    /\ UNCHANGED << method, file_list, idx, err_counter, tmp_counter,
                    rev_counter, exit_code, trace, reads, git_output,
                    serial_rev0, serial_rev1, today >>

InitSerial ==
    /\ method \in Methods
    /\ serial_rev0 \in { Some(s) : s \in Serials }
    /\ serial_rev1 \in { None } \cup { Some(s) : s \in Serials }
    /\ today \in Dates
    /\ serial_ret = None
    /\ pc = "check_serial"
    /\ file_list = << >>
    /\ idx = 1
    /\ err_counter = 0
    /\ tmp_counter = 0
    /\ rev_counter = 0
    /\ exit_code = None
    /\ trace = << >>
    /\ reads = << >>
    /\ git_output = << >>

NextSerial == CheckSerial

SpecSerial == InitSerial /\ [][NextSerial]_vars

----------------------------------------------------------------------------
(* Properties *)

Terminal == { "done", "exit", "crash" }

StageRank(stage) == IF stage = "zone" THEN 1 ELSE IF stage = "origin" THEN 3 ELSE 2

\* the events of file f in trace
EventsOf(f) == { j \in DOMAIN trace : trace[j].file = f }

Ran(f, stage) == \E j \in EventsOf(f) : trace[j].stage = stage

RECURSIVE SumRet(_)
SumRet(t) == IF t = << >> THEN 0 ELSE t[Len(t)].ret + SumRet(SubSeq(t, 1, Len(t) - 1))

IsZoneFile(path) == zone_pattern(basename(path))

DateNumber(t) == t.year * 10000 + t.month * 100 + t.day

\* C1: a run of pre_commit that goes through the whole list exits with code 0
\* if and only if every stage of every file returned 0, and with code 1 if
\* and only if some stage reported a validation error.
C1_ExitZeroIffAllPassed ==
    pc = "done" =>
        /\ exit_code = Some(0) <=> \A j \in DOMAIN trace : trace[j].ret = 0
        /\ exit_code = Some(1) <=> \E j \in DOMAIN trace : trace[j].ret # 0

\* C2: the list main() hands to pre_commit is exactly the paths printed by
\* git whose basename matches the zone file pattern, in their original order.
C2_FilterKeepsExactlyZoneFiles ==
    pc = "pre_commit" => file_list = SelectSeq(git_output, IsZoneFile)

\* C3: within one file the stages run in the order external checker, serial
\* check, origin check, and a stage runs only if every earlier stage of that
\* file returned 0: a non-zero exit of the checker (any code) leaves out the
\* serial and origin checks, a failed serial check leaves out the origin
\* check.
C3_FirstFailingStageIsTerminal ==
    /\ \A j, k \in DOMAIN trace :
          (j < k /\ trace[j].file = trace[k].file) =>
              /\ trace[j].ret = 0
              /\ StageRank(trace[j].stage) < StageRank(trace[k].stage)
    /\ \A k \in DOMAIN trace :
          trace[k].stage # "zone" =>
              \E j \in 1..(k - 1) :
                  trace[j].file = trace[k].file /\ trace[j].stage = "zone"

\* C3 witness: the run is over; the checker exited with a code other than 0
\* and 1 for one file, the serial check failed for another, and each of
\* these is the last stage of its file.
C3_Witness ==
    /\ pc = "done"
    /\ \E j \in DOMAIN trace :
          /\ trace[j].stage = "zone" /\ trace[j].ret \notin { 0, 1 }
          /\ Cardinality(EventsOf(trace[j].file)) = 1
    /\ \E j \in DOMAIN trace :
          /\ trace[j].stage \in { "serial_new", "serial_base" } /\ trace[j].ret # 0
          /\ Cardinality(EventsOf(trace[j].file)) = 2

\* C4 as stated: when the serial of a new zone file does not match the
\* new-zone format, the finished run exits with code 1 and both the external
\* check and the origin check were executed for that file.
C4_OriginStillRunsAfterBadSerial ==
    \A j \in DOMAIN trace :
        (pc = "done" /\ trace[j].stage = "serial_new" /\ trace[j].ret # 0) =>
            /\ exit_code = Some(1)
            /\ Ran(trace[j].file, "zone")
            /\ Ran(trace[j].file, "origin")

\* C4 amended: when the serial of a new zone file (revision count 0, external
\* check exited 0) does not match the new-zone format, the serial check adds
\* exactly 1 to the error counter, the external check was executed for that
\* file and returned 0, and the origin check is not executed for that file;
\* a run over that file alone exits with code 1.
C4_BadSerialSkipsOrigin ==
    /\ err_counter = SumRet(trace)
    /\ \A j \in DOMAIN trace :
          (trace[j].stage = "serial_new" /\ trace[j].ret # 0) =>
              /\ trace[j].ret = 1
              /\ \E k \in 1..(j - 1) :
                    /\ trace[k].file = trace[j].file
                    /\ trace[k].stage = "zone" /\ trace[k].ret = 0
              /\ ~Ran(trace[j].file, "origin")
              /\ (Len(file_list) = 1 /\ pc \in Terminal) => exit_code = Some(1)

\* C4 witness: a finished run over one new zone file whose serial check
\* failed after the external check passed.
C4_Witness ==
    /\ pc = "done" /\ Len(file_list) = 1 /\ exit_code = Some(1)
    /\ Len(trace) = 2
    /\ trace[1].stage = "zone" /\ trace[1].ret = 0
    /\ trace[2].stage = "serial_new" /\ trace[2].ret = 1

\* C5: files are processed in list order; a validation error of a file never
\* keeps the later files from being processed (a run that ends normally has
\* run the external checker on every file, and a stage that reports an error
\* does not end the run); the run stops before the end of the list only by a
\* fatal error, which ends the process at once with exit code 1, the step
\* that exits runs no stage, and no stage or read of a later file exists.
C5_OnlyFatalErrorStopsRun ==
    /\ [](pc = "done" => \A f \in 1..Len(file_list) : Ran(f, "zone"))
    /\ [](\A j, k \in DOMAIN trace : j < k => trace[j].file <= trace[k].file)
    /\ [](pc \in { "exit", "crash" } =>
             /\ exit_code = Some(1)
             /\ \A j \in DOMAIN trace : trace[j].file <= idx
             /\ \A j \in DOMAIN reads : reads[j].file <= idx)
    /\ [](pc \notin Terminal => exit_code = None)
    /\ [][(trace' # trace) => (pc' \notin Terminal /\ exit_code' = None)]_vars
    /\ [][(pc' = "exit" /\ pc # "exit") =>
             (trace' = trace /\ exit_code' = Some(1))]_vars

\* C5 witness: the first file had a validation error, the second file was
\* processed and hit a fatal parse error, the third file was never touched.
C5_Witness ==
    /\ pc = "exit" /\ idx = 2 /\ Len(file_list) = 3
    /\ \E j \in EventsOf(1) : trace[j].ret # 0
    /\ Ran(2, "zone")
    /\ EventsOf(3) = {}

\* C6: with a baseline serial, check_serial returns 0 if and only if the
\* current serial is today's date as YYYYMMDD followed by two digits and is
\* strictly greater than the baseline; otherwise it returns 1, never 2.
C6_CheckSerialWithBaseline ==
    (pc = "returned" /\ serial_rev1 # None) =>
        /\ serial_ret \in { Some(0), Some(1) }
        /\ serial_ret = Some(0) <=>
              /\ \E c \in 0..99 : serial_rev0[1] = DateNumber(today) * 100 + c
              /\ serial_rev0[1] > serial_rev1[1]

\* C6 witness: check_serial returned 1 for a serial that breaks both the
\* format rule and the increment rule.
C6_Witness ==
    /\ pc = "returned" /\ serial_rev1 # None
    /\ serial_rev0[1] \div 100 # DateNumber(today)
    /\ serial_rev0[1] <= serial_rev1[1]
    /\ serial_ret = Some(1)

\* C7: the external checker stage adds 0 or 1 to the error counter.
C7_CheckerContributesZeroOrOne ==
    [][(pc = "zone" /\ pc' = "serial") =>
          (err_counter' - err_counter) \in { 0, 1 }]_vars

\* C8: the error counter of pre_commit never decreases.
C8_ErrCounterMonotonic == [][err_counter' >= err_counter]_vars

\* C9 as stated: when fetching the content of a file with revision count
\* greater than 0 fails during the serial stage, only that file fails: every
\* later file of the list is still processed.
C9_FetchFailureIsPerFile ==
    \A j \in DOMAIN reads :
        (pc \in Terminal /\ ~reads[j].ok /\ reads[j].stage = "serial"
                         /\ rev_counter > 0) =>
            \A f \in (reads[j].file + 1)..Len(file_list) :
                \E k \in DOMAIN reads : reads[k].file = f

\* C9 amended: for a file with revision count greater than 0 the serial check
\* runs only after both the current and the baseline content were fetched; a
\* failed fetch is not a per-file failure: the exception is not caught, the
\* process ends at once with exit status 1 and no later file is processed; the
\* baseline content is fetched only while the revision count is greater
\* than 0, so never for a file with revision count 0.
C9_FetchFailureAbortsRun ==
    /\ [](\A j \in DOMAIN reads :
             ~reads[j].ok =>
                 /\ j = Len(reads) /\ pc = "crash" /\ exit_code = Some(1)
                 /\ reads[j].file = idx
                 /\ \A k \in DOMAIN trace : trace[k].file <= idx)
    /\ [](\A j \in DOMAIN trace :
             trace[j].stage = "serial_base" =>
                 \A revision \in { 0, 1 } :
                     \E k \in DOMAIN reads :
                         /\ reads[k].file = trace[j].file /\ reads[k].ok
                         /\ reads[k].stage = "serial"
                         /\ reads[k].revision = revision)
    /\ [][\A j \in (Len(reads) + 1)..Len(reads') :
             reads'[j].revision = 1 => (rev_counter > 0 /\ rev_counter' > 0)]_vars

\* C9 witness: fetching the baseline of the first of several files failed
\* and the process stopped there.
C9_Witness ==
    /\ pc = "crash" /\ idx = 1 /\ Len(file_list) > 1 /\ rev_counter > 0
    /\ reads # << >>
    /\ reads[Len(reads)].revision = 1 /\ ~reads[Len(reads)].ok

\* C10: the revision count used by pre_commit is never negative, and every
\* origin check and every passing file was preceded by exactly one serial
\* check of that file.
C10_SerialAlwaysValidated ==
    /\ rev_counter >= 0
    /\ \A j \in DOMAIN trace :
          trace[j].stage = "origin" =>
              Cardinality({ k \in EventsOf(trace[j].file) :
                  trace[k].stage \in { "serial_new", "serial_base" } }) = 1

====
